---- MODULE Spec2Model ----
(***************************************************************************)
(* The ZATCA QR decoder of ZatScan: parseZATCAQR and isValidZATCAQR         *)
(* (src/README.md, "ZATCA Parser" listing, lines 266-344), and the         *)
(* QRScanner component that submits what it decodes                        *)
(* (src/unnamed/part_000).                                                 *)
(*                                                                         *)
(* Spec, SpecExtended and FairSpecExtended run one decode call step by     *)
(* step; SpecRepeated runs one call as a whole on payloads with repeated   *)
(* fields; SpecConcurrent runs two calls interleaved; SpecScanner runs the *)
(* handlers, timers and requests of the component.                         *)
(*                                                                         *)
(* Strings are sequences of UTF-16 code units (naturals).  JavaScript      *)
(* numbers are decimal fixed-point integers counting hundredths            *)
(* (7.5 is 750); the not-a-number value is NaN.                            *)
(***************************************************************************)
EXTENDS Integers, Sequences, FiniteSets, TLC

\* ------------------------------------------------------------------ bounds

\* The longest payload, in complete or cut TLV fields.
MaxFields == 4

\* The latest reading of the clock (Date.now()), in ticks after the first call.
MaxNow == 1

\* --------------------------------------------------------- JavaScript values

Undefined == [t |-> "undefined", s |-> <<>>, n |-> 0]

NaN == [t |-> "NaN", s |-> <<>>, n |-> 0]

Str(x) == [t |-> "string", s |-> x, n |-> 0]

Num(k) == [t |-> "number", s |-> <<>>, n |-> k]

\* ToBoolean: undefined, "", 0 and NaN are falsy.
Truthy(v) ==
  CASE v.t = "string" -> Len(v.s) > 0
    [] v.t = "number" -> v.n # 0
    [] OTHER -> FALSE

\* The binary minus of two values: NaN unless both are numbers.
Minus(a, b) ==
  IF a.t = "number" /\ b.t = "number" THEN Num(a.n - b.n) ELSE NaN

\* ------------------------------------------------------------------- atob

IsAsciiWhitespace(c) == c \in {9, 10, 12, 13, 32}

\* The value of a character of the base64 alphabet, -1 for any other.
B64Index(c) ==
  IF c >= 65 /\ c <= 90 THEN c - 65
  ELSE IF c >= 97 /\ c <= 122 THEN c - 71
  ELSE IF c >= 48 /\ c <= 57 THEN c + 4
  ELSE IF c = 43 THEN 62
  ELSE IF c = 47 THEN 63
  ELSE 0 - 1

RECURSIVE StripWhitespace(_)
StripWhitespace(s) ==
  IF s = <<>> THEN <<>>
  ELSE IF IsAsciiWhitespace(Head(s)) THEN StripWhitespace(Tail(s))
  ELSE <<Head(s)>> \o StripWhitespace(Tail(s))

\* One or two trailing "=" are removed when the length is a multiple of 4.
StripPadding(s) ==
  IF Len(s) % 4 = 0 /\ Len(s) > 0 /\ s[Len(s)] = 61
  THEN IF s[Len(s) - 1] = 61 THEN SubSeq(s, 1, Len(s) - 2)
       ELSE SubSeq(s, 1, Len(s) - 1)
  ELSE s

\* The bytes of a sequence of sextets; 12 left-over bits give one byte, 18 two.
RECURSIVE DecodeSextets(_)
DecodeSextets(v) ==
  IF Len(v) < 2 THEN <<>>
  ELSE IF Len(v) = 2 THEN <<v[1] * 4 + (v[2] \div 16)>>
  ELSE IF Len(v) = 3
    THEN <<v[1] * 4 + (v[2] \div 16), (v[2] % 16) * 16 + (v[3] \div 4)>>
  ELSE <<v[1] * 4 + (v[2] \div 16),
         (v[2] % 16) * 16 + (v[3] \div 4),
         (v[3] % 4) * 64 + v[4]>> \o DecodeSextets(SubSeq(v, 5, Len(v)))

\* The forgiving base64 decode of the platform: threw is TRUE where atob raises
\* InvalidCharacterError.
atob(s) ==
  LET body == StripPadding(StripWhitespace(s))
  IN IF Len(body) % 4 = 1 \/ \E i \in 1..Len(body) : B64Index(body[i]) < 0
     THEN [threw |-> TRUE, value |-> <<>>]
     ELSE [threw |-> FALSE,
           value |-> DecodeSextets([i \in 1..Len(body) |-> B64Index(body[i])])]

\* decodedData = atob(qrData), the catch forgotten: nothing is decoded.
DecodedData_noFallback(qrData) == atob(qrData).value

\* try { decodedData = atob(qrData) } catch { decodedData = qrData }
DecodedData(qrData) ==
  IF atob(qrData).threw THEN qrData ELSE atob(qrData).value

\* -------------------------------------------------------------- parseFloat

IsStrWhiteSpace(c) ==
  c \in {9, 10, 11, 12, 13, 32, 160, 5760, 8232, 8233, 8239, 8287, 12288, 65279}
  \/ (c >= 8192 /\ c <= 8202)

IsDigit(c) == c >= 48 /\ c <= 57

RECURSIVE TrimStart(_)
TrimStart(s) ==
  IF s # <<>> /\ IsStrWhiteSpace(Head(s)) THEN TrimStart(Tail(s)) ELSE s

\* The length of the longest prefix of s made of decimal digits.
RECURSIVE DigitCount(_)
DigitCount(s) ==
  IF s # <<>> /\ IsDigit(Head(s)) THEN 1 + DigitCount(Tail(s)) ELSE 0

\* The number a sequence of decimal digits denotes.
RECURSIVE DigitsValue(_)
DigitsValue(s) ==
  IF s = <<>> THEN 0
  ELSE DigitsValue(SubSeq(s, 1, Len(s) - 1)) * 10 + (s[Len(s)] - 48)

\* parseFloat: leading white space is skipped, then the longest prefix that is a
\* signed decimal literal is converted; NaN when there is none.  The result counts
\* hundredths.  Exponents and "Infinity" need the letters e, E and I, which no
\* amount text of the payloads below contains.
parseFloat(s) ==
  LET t == TrimStart(s)
      signed == t # <<>> /\ t[1] \in {43, 45}
      negative == t # <<>> /\ t[1] = 45
      u == IF signed THEN Tail(t) ELSE t
      ni == DigitCount(u)
      rest == SubSeq(u, ni + 1, Len(u))
      frac == IF rest # <<>> /\ rest[1] = 46 THEN Tail(rest) ELSE <<>>
      nf == DigitCount(frac)
      tenths == IF nf >= 1 THEN frac[1] - 48 ELSE 0
      hundredths == IF nf >= 2 THEN frac[2] - 48 ELSE 0
      magnitude == DigitsValue(SubSeq(u, 1, ni)) * 100 + tenths * 10 + hundredths
  IN IF ni = 0 /\ nf = 0 THEN NaN
     ELSE Num(IF negative THEN 0 - magnitude ELSE magnitude)

\* ------------------------------------------------------------ the TLV walk

\* const data: Partial<ZATCAData> = {}
EmptyData ==
  [sellerName |-> Undefined, vatNumber |-> Undefined, invoiceNumber |-> Undefined,
   invoiceDate |-> Undefined, subtotal |-> Undefined, vatAmount |-> Undefined,
   totalAmount |-> Undefined]

\* decodedData.charCodeAt(i), for an index inside the string.
CharCodeAt(d, i) == d[i + 1]

\* decodedData.substring(from, to) for from <= to: the end is clamped to the length.
Substring(d, from, to) ==
  SubSeq(d, from + 1, IF to > Len(d) THEN Len(d) ELSE to)

\* value: the split is forgotten.
SplitT0_whole(value) == value

\* value.split('T')[0]: the part before the first "T".
RECURSIVE SplitT0(_)
SplitT0(value) ==
  IF value = <<>> \/ Head(value) = 84 THEN <<>>
  ELSE <<Head(value)>> \o SplitT0(Tail(value))

\* if (position + 1 >= decodedData.length) break;
HeaderTruncated(d, position) == position + 1 >= Len(d)

\* The same check without the two header bytes.
ValueTruncated_noHeader(d, position, length) == position + length > Len(d)

\* if (position + 1 + length > decodedData.length) break;
ValueTruncated_offByOne(d, position, length) == position + 1 + length > Len(d)

\* if (position + 2 + length > decodedData.length) break;
ValueTruncated(d, position, length) == position + 2 + length > Len(d)

\* The switch with the seller name and the VAT number stored in each other's field.
ApplyTag_swapped(data, tag, value) ==
  CASE tag = 1 -> [data EXCEPT !.vatNumber = Str(value)]
    [] tag = 2 -> [data EXCEPT !.sellerName = Str(value)]
    [] tag = 3 -> [data EXCEPT !.invoiceDate = Str(SplitT0(value))]
    [] tag = 4 -> [data EXCEPT !.totalAmount = parseFloat(value)]
    [] tag = 5 -> [data EXCEPT !.vatAmount = parseFloat(value)]
    [] OTHER -> data

\* The switch with a default label on its last case: any other tag is a VAT total.
ApplyTag_defaultVat(data, tag, value) ==
  CASE tag = 1 -> [data EXCEPT !.sellerName = Str(value)]
    [] tag = 2 -> [data EXCEPT !.vatNumber = Str(value)]
    [] tag = 3 -> [data EXCEPT !.invoiceDate = Str(SplitT0(value))]
    [] tag = 4 -> [data EXCEPT !.totalAmount = parseFloat(value)]
    [] OTHER -> [data EXCEPT !.vatAmount = parseFloat(value)]

\* The switch with assignments that keep a value already set: the first wins.
ApplyTag_keepFirst(data, tag, value) ==
  CASE tag = 1 /\ data.sellerName = Undefined -> [data EXCEPT !.sellerName = Str(value)]
    [] tag = 2 /\ data.vatNumber = Undefined -> [data EXCEPT !.vatNumber = Str(value)]
    [] tag = 3 /\ data.invoiceDate = Undefined ->
         [data EXCEPT !.invoiceDate = Str(SplitT0(value))]
    [] tag = 4 /\ data.totalAmount = Undefined ->
         [data EXCEPT !.totalAmount = parseFloat(value)]
    [] tag = 5 /\ data.vatAmount = Undefined ->
         [data EXCEPT !.vatAmount = parseFloat(value)]
    [] OTHER -> data

\* switch (tag) { case 1: ... case 5: ... }
ApplyTag(data, tag, value) ==
  CASE tag = 1 -> [data EXCEPT !.sellerName = Str(value)]
    [] tag = 2 -> [data EXCEPT !.vatNumber = Str(value)]
    [] tag = 3 -> [data EXCEPT !.invoiceDate = Str(SplitT0(value))]
    [] tag = 4 -> [data EXCEPT !.totalAmount = parseFloat(value)]
    [] tag = 5 -> [data EXCEPT !.vatAmount = parseFloat(value)]
    [] OTHER -> data

\* position += length: the header is not counted.
Advance_lengthOnly(position, length) == position + length

\* position += 2;
Advance_headerOnly(position, length) == position + 2

\* position += 2 + length;
Advance(position, length) == position + 2 + length

\* Whether the loop at position runs one more full iteration (no exit, no break).
WalkContinues(d, position) ==
  /\ position < Len(d)
  /\ ~HeaderTruncated(d, position)
  /\ ~ValueTruncated(d, position, CharCodeAt(d, position + 1))

\* The loop body with a total that ends the record: fields after it are skipped.
IterationData_totalLast(d, position, data) ==
  LET tag == CharCodeAt(d, position)
      length == CharCodeAt(d, position + 1)
      value == Substring(d, position + 2, position + 2 + length)
  IN IF data.totalAmount # Undefined THEN data ELSE ApplyTag(data, tag, value)

\* The data after one full iteration at position.
IterationData(d, position, data) ==
  LET tag == CharCodeAt(d, position)
      length == CharCodeAt(d, position + 1)
      value == Substring(d, position + 2, position + 2 + length)
  IN ApplyTag(data, tag, value)

\* The while loop, from position to its end.
RECURSIVE Walk(_, _, _)
Walk(d, position, data) ==
  IF WalkContinues(d, position)
  THEN Walk(d, Advance(position, CharCodeAt(d, position + 1)),
            IterationData(d, position, data))
  ELSE data

\* ------------------------------------------------------- post-processing

\* if (data.totalAmount) data.subtotal = total - vat
WithSubtotal_totalOnly(data) ==
  IF Truthy(data.totalAmount)
  THEN [data EXCEPT !.subtotal = Minus(data.totalAmount, data.vatAmount)]
  ELSE data

\* if (data.totalAmount && data.vatAmount) data.subtotal = total - vat
WithSubtotal(data) ==
  IF Truthy(data.totalAmount) /\ Truthy(data.vatAmount)
  THEN [data EXCEPT !.subtotal = Minus(data.totalAmount, data.vatAmount)]
  ELSE data

\* The decimal digits of a natural number, as ToString gives them.
RECURSIVE DecimalDigits(_)
DecimalDigits(k) ==
  IF k < 10 THEN <<48 + k>> ELSE DecimalDigits(k \div 10) \o <<48 + (k % 10)>>

\* if (!data.invoiceNumber) data.invoiceNumber = `INV-${Date.now()}`
WithInvoiceNumber(data, now) ==
  IF ~Truthy(data.invoiceNumber)
  THEN [data EXCEPT !.invoiceNumber = Str(<<73, 78, 86, 45>> \o DecimalDigits(now))]
  ELSE data

\* data.sellerName && data.totalAmount !== undefined
RequiredFieldsPresent_noVat(data) ==
  /\ Truthy(data.sellerName)
  /\ data.totalAmount # Undefined

\* The gate with a VAT amount that must be a number when the payload gave one.
RequiredFieldsPresent_numericVat(data) ==
  /\ Truthy(data.sellerName)
  /\ Truthy(data.vatNumber)
  /\ data.totalAmount # Undefined
  /\ data.vatAmount # NaN

\* data.sellerName && data.vatNumber && data.totalAmount !== undefined
RequiredFieldsPresent(data) ==
  /\ Truthy(data.sellerName)
  /\ Truthy(data.vatNumber)
  /\ data.totalAmount # Undefined

Null == [t |-> "null", data |-> EmptyData]

Object(data) == [t |-> "object", data |-> data]

\* The same, with a missing invoice date filled in from the clock.
Finalize_clockDate(data, now) ==
  LET dated == IF data.invoiceDate = Undefined
               THEN [data EXCEPT !.invoiceDate = Str(DecimalDigits(now))]
               ELSE data
      final == WithInvoiceNumber(WithSubtotal(dated), now)
  IN IF RequiredFieldsPresent(final) THEN Object(final) ELSE Null

\* Everything after the loop: subtotal, invoice number, the gate, the return value.
Finalize(data, now) ==
  LET final == WithInvoiceNumber(WithSubtotal(data), now)
  IN IF RequiredFieldsPresent(final) THEN Object(final) ELSE Null

\* parseZATCAQR(qrData), called when Date.now() reads now.
parseZATCAQR(qrData, now) ==
  Finalize(Walk(DecodedData(qrData), 0, EmptyData), now)

\* parseZATCAQR(qrData) !== undefined
isValidZATCAQR_undefined(qrData, now) == parseZATCAQR(qrData, now).t # "undefined"

\* isValidZATCAQR(qrData): parseZATCAQR(qrData) !== null
isValidZATCAQR(qrData, now) == parseZATCAQR(qrData, now) # Null

\* ------------------------------------------------------------ the payloads

Field(tag, value, numeric, amount) ==
  [tag |-> tag, value |-> value, numeric |-> numeric, amount |-> amount]

\* The fields a payload is made of.  numeric says whether the value is the text of
\* a decimal number, and amount is that number in hundredths.
FieldOptions ==
  { Field(1, <<65>>, FALSE, 0),            \* seller name "A"
    Field(1, <<>>, FALSE, 0),              \* seller name ""
    Field(2, <<66>>, FALSE, 0),            \* VAT number "B"
    Field(2, <<>>, FALSE, 0),              \* VAT number ""
    Field(4, <<55, 46, 53>>, TRUE, 750),   \* total "7.5"
    Field(4, <<120>>, FALSE, 0),           \* total "x"
    Field(5, <<50>>, TRUE, 200),           \* VAT "2"
    Field(5, <<48>>, TRUE, 0),             \* VAT "0"
    Field(5, <<120>>, FALSE, 0),           \* VAT "x"
    Field(99, <<1, 0>>, FALSE, 0),         \* unknown tag, value bytes 01 00
    Field(99, <<>>, FALSE, 0) }            \* unknown tag, no value

\* The tags that may occur more than once in a payload.
RepeatableTags == {1}

\* The payloads: up to MaxFields pairwise different fields, in any order.  The
\* seller name may occur twice (with different values), every other tag once.
FieldSeqs ==
  UNION { {F \in [1..k -> FieldOptions] :
             \A i, j \in 1..k :
               (i < j /\ F[i].tag = F[j].tag) =>
                 (F[i].tag \in RepeatableTags /\ F[i] # F[j])}
          : k \in 0..MaxFields }

\* tag, length, value
EncodeField(f) == <<f.tag, Len(f.value)>> \o f.value

RECURSIVE EncodeAll(_)
EncodeAll(F) ==
  IF F = <<>> THEN <<>> ELSE EncodeField(Head(F)) \o EncodeAll(Tail(F))

\* The character of the base64 alphabet with value v.
B64Char(v) ==
  IF v < 26 THEN 65 + v
  ELSE IF v < 52 THEN 71 + v
  ELSE IF v < 62 THEN v - 4
  ELSE IF v = 62 THEN 43
  ELSE 47

\* The base64 text of a byte sequence, padded with "=".
RECURSIVE btoa(_)
btoa(b) ==
  IF b = <<>> THEN <<>>
  ELSE IF Len(b) = 1
    THEN <<B64Char(b[1] \div 4), B64Char((b[1] % 4) * 16), 61, 61>>
  ELSE IF Len(b) = 2
    THEN <<B64Char(b[1] \div 4), B64Char((b[1] % 4) * 16 + (b[2] \div 16)),
           B64Char((b[2] % 16) * 4), 61>>
  ELSE <<B64Char(b[1] \div 4), B64Char((b[1] % 4) * 16 + (b[2] \div 16)),
         B64Char((b[2] % 16) * 4 + (b[3] \div 64)), B64Char(b[3] % 64)>>
       \o btoa(SubSeq(b, 4, Len(b)))

\* The TLV bytes of F with the last `drop` bytes cut off.
Payload(F, drop) == SubSeq(EncodeAll(F), 1, Len(EncodeAll(F)) - drop)

\* The scanned string: the bytes base64-encoded, or as they are.
Scanned(bytes, encoding) == IF encoding = "base64" THEN btoa(bytes) ELSE bytes

\* The cut-offs that leave the last field of F incomplete (0: no cut).
Drops(F) == IF F = <<>> THEN {0} ELSE 0..(1 + Len(F[Len(F)].value))

\* The fields of the payload that lie completely before the cut-off.
Readable(F, drop) == IF drop = 0 THEN F ELSE SubSeq(F, 1, Len(F) - 1)

\* ------------------------------------------------------------- the machine

VARIABLES
  fields,       \* the fields the payload was built from
  dropped,      \* the number of bytes cut off its end
  enc,          \* "base64" or "raw"
  qrData,       \* the scanned string, parseZATCAQR's argument
  now,          \* Date.now()
  pc,           \* where the caller and the running call are
  decodedData,  \* parseZATCAQR's local decodedData
  position,     \* parseZATCAQR's local position
  data,         \* parseZATCAQR's local data
  result,       \* what the first parseZATCAQR(qrData) returned
  valid,        \* what isValidZATCAQR(qrData) returned
  second,       \* what a later parseZATCAQR(qrData) returned
  concurrent,   \* a parseZATCAQR call that runs at the same time: its locals
  scanMode,            \* QRScanner's state: 'camera' or 'upload'
  isProcessing,        \* QRScanner's state
  scanCooldown,        \* QRScanner's state
  cooldownTimer,       \* QRScanner's state
  lastScannedData,     \* QRScanner's state
  scannedDataHistory,  \* QRScanner's state
  scanner,             \* the camera scanner and the render its callback is from
  debounceTimeout,     \* the pending debounce timer, with what its callback holds
  cooldownInterval,    \* whether the interval of cooldownInterval.current runs
  orphanIntervals,     \* whether an interval no longer referenced still runs
  uploading,           \* the upload whose image is being scanned
  posts,               \* the records sent with POST /api/qr-codes, in order
  saving,              \* the requests (places in posts) not yet settled
  saved                \* the raw payloads whose request succeeded

parserVars ==
  <<fields, dropped, enc, qrData, now, pc, decodedData, position, data, result,
    valid, second>>

scannerVars ==
  <<scanMode, isProcessing, scanCooldown, cooldownTimer, lastScannedData,
    scannedDataHistory, scanner, debounceTimeout, cooldownInterval,
    orphanIntervals, uploading, posts, saving, saved>>

vars == <<parserVars, concurrent, scannerVars>>

Pending == [t |-> "pending", data |-> EmptyData]

\* The locals of a call that has not begun, on the string raw.
Call(raw) ==
  [qrData |-> raw, pc |-> "entry", decodedData |-> <<>>, position |-> 0,
   data |-> EmptyData, result |-> Pending]

\* What a render of QRScanner has in scope: the state its closures read.
Render(mode, processing, cooldown, last, history) ==
  [scanMode |-> mode, isProcessing |-> processing, scanCooldown |-> cooldown,
   lastScannedData |-> last, scannedDataHistory |-> history]

\* The first render: the initial value of every useState.
FirstRender == Render("camera", FALSE, FALSE, <<>>, {})

NoScanner == [live |-> FALSE, render |-> FirstRender]

NoTimer == [pending |-> FALSE, qrData |-> <<>>, render |-> FirstRender]

\* The component after mounting: the effect has started the camera, whose
\* callback is the handleQRDetection of the first render.
Mounted ==
  /\ scanMode = "camera"
  /\ isProcessing = FALSE
  /\ scanCooldown = FALSE
  /\ cooldownTimer = 0
  /\ lastScannedData = <<>>
  /\ scannedDataHistory = {}
  /\ scanner = [live |-> TRUE, render |-> FirstRender]
  /\ debounceTimeout = NoTimer
  /\ cooldownInterval = FALSE
  /\ orphanIntervals = FALSE
  /\ uploading = NoTimer
  /\ posts = <<>>
  /\ saving = {}
  /\ saved = {}

Init ==
  /\ fields \in FieldSeqs
  /\ dropped \in Drops(fields)
  /\ enc \in {"base64", "raw"}
  /\ qrData = Scanned(Payload(fields, dropped), enc)
  /\ now = 0
  /\ pc = "entry"
  /\ decodedData = <<>>
  /\ position = 0
  /\ data = EmptyData
  /\ result = Pending
  /\ valid = FALSE
  /\ second = Pending
  /\ concurrent = Call(<<>>)
  /\ Mounted

\* The base64 attempt with its fallback, and the locals of the walk.
Decode ==
  /\ pc = "entry"
  /\ decodedData' = DecodedData(qrData)
  /\ data' = EmptyData
  /\ position' = 0
  /\ pc' = "walk"
  /\ UNCHANGED <<fields, dropped, enc, qrData, now, result, valid, second>>
  /\ UNCHANGED <<concurrent, scannerVars>>

\* One full iteration of the loop: a field is read and the cursor moves past it.
Iterate ==
  /\ pc = "walk"
  /\ WalkContinues(decodedData, position)
  /\ data' = IterationData(decodedData, position, data)
  /\ position' = Advance(position, CharCodeAt(decodedData, position + 1))
  /\ UNCHANGED <<fields, dropped, enc, qrData, now, pc, decodedData, result, valid,
                 second>>
  /\ UNCHANGED <<concurrent, scannerVars>>

\* while (position < decodedData.length) is false: the loop ends.
LoopEnd ==
  /\ pc = "walk"
  /\ ~(position < Len(decodedData))
  /\ pc' = "post"
  /\ UNCHANGED <<fields, dropped, enc, qrData, now, decodedData, position, data,
                 result, valid, second>>
  /\ UNCHANGED <<concurrent, scannerVars>>

\* The first break: no room for a tag and a length.
BreakHeader ==
  /\ pc = "walk"
  /\ position < Len(decodedData)
  /\ HeaderTruncated(decodedData, position)
  /\ pc' = "post"
  /\ UNCHANGED <<fields, dropped, enc, qrData, now, decodedData, position, data,
                 result, valid, second>>
  /\ UNCHANGED <<concurrent, scannerVars>>

\* The second break: the value would run past the end.
BreakValue ==
  /\ pc = "walk"
  /\ position < Len(decodedData)
  /\ ~HeaderTruncated(decodedData, position)
  /\ ValueTruncated(decodedData, position, CharCodeAt(decodedData, position + 1))
  /\ pc' = "post"
  /\ UNCHANGED <<fields, dropped, enc, qrData, now, decodedData, position, data,
                 result, valid, second>>
  /\ UNCHANGED <<concurrent, scannerVars>>

\* Subtotal, invoice number, the required-field gate, and the return.
Return ==
  /\ pc = "post"
  /\ result' = Finalize(data, now)
  /\ pc' = "returned"
  /\ UNCHANGED <<fields, dropped, enc, qrData, now, decodedData, position, data,
                 valid, second>>
  /\ UNCHANGED <<concurrent, scannerVars>>

\* The caller asks isValidZATCAQR about the same string.
IsValidCall ==
  /\ pc = "returned"
  /\ valid' = isValidZATCAQR(qrData, now)
  /\ pc' = "validated"
  /\ UNCHANGED <<fields, dropped, enc, qrData, now, decodedData, position, data,
                 result, second>>
  /\ UNCHANGED <<concurrent, scannerVars>>

\* The same string is parsed once more, at the same or a later clock reading.
ParseAgain ==
  /\ pc = "validated"
  /\ \E t \in now..MaxNow :
       /\ now' = t
       /\ second' = parseZATCAQR(qrData, t)
  /\ pc' = "done"
  /\ UNCHANGED <<fields, dropped, enc, qrData, decodedData, position, data, result,
                 valid>>
  /\ UNCHANGED <<concurrent, scannerVars>>

Next ==
  \/ Decode
  \/ Iterate
  \/ LoopEnd
  \/ BreakHeader
  \/ BreakValue
  \/ Return
  \/ IsValidCall
  \/ ParseAgain

Spec == Init /\ [][Next]_vars

\* ---------------------------------------------------------------- claims

\* The first call has returned.
Returned == pc \in {"returned", "validated", "done"}

\* isValidZATCAQR has returned.
Validated == pc \in {"validated", "done"}

\* The fields that lie completely inside the payload that was scanned.
ReadableFields == Readable(fields, dropped)

HasTag(R, k) == \E i \in 1..Len(R) : R[i].tag = k

\* The last field of R with tag k.
LastOf(R, k) ==
  R[CHOOSE i \in 1..Len(R) :
      R[i].tag = k /\ \A j \in (i + 1)..Len(R) : R[j].tag # k]

\* Tag k is among the readable fields and its value is not empty.
NonEmptyTag(k) ==
  HasTag(ReadableFields, k) /\ LastOf(ReadableFields, k).value # <<>>

\* Tag k is among the readable fields and its value is the text of a number.
NumericTag(k) ==
  HasTag(ReadableFields, k) /\ LastOf(ReadableFields, k).numeric

AmountOf(k) == LastOf(ReadableFields, k).amount

\* C1: a payload whose readable fields hold a non-empty tag 1, a non-empty tag 2
\* and a numeric tag 4 gives a record whose sellerName, vatNumber and totalAmount
\* are the values of those tags (of its last occurrence, for a tag that repeats).
C1_ValidPayloadGivesRecord ==
  (Returned /\ NonEmptyTag(1) /\ NonEmptyTag(2) /\ NumericTag(4)) =>
    /\ result.t = "object"
    /\ result.data.sellerName = Str(LastOf(ReadableFields, 1).value)
    /\ result.data.vatNumber = Str(LastOf(ReadableFields, 2).value)
    /\ result.data.totalAmount = Num(AmountOf(4))

\* A base64 payload of four fields, the seller name given twice (first empty), has
\* been decoded to a record.
C1_Witness ==
  /\ pc = "returned"
  /\ NonEmptyTag(1) /\ NonEmptyTag(2) /\ NumericTag(4)
  /\ Len(ReadableFields) = 4
  /\ ReadableFields[1].tag = 1 /\ ReadableFields[1].value = <<>>
  /\ enc = "base64"
  /\ result.t = "object"

\* C2: when tag 1, 2 or 4 is missing from the readable fields, or tag 1 or 2 is
\* empty, parseZATCAQR returns null and isValidZATCAQR false; a record that is
\* returned has a non-empty sellerName and vatNumber and a totalAmount.
C2_IncompleteGivesNull ==
  /\ (Returned /\ ~(NonEmptyTag(1) /\ NonEmptyTag(2) /\ HasTag(ReadableFields, 4)))
       => result = Null
  /\ (Validated /\ ~(NonEmptyTag(1) /\ NonEmptyTag(2) /\ HasTag(ReadableFields, 4)))
       => valid = FALSE
  /\ (Returned /\ result.t = "object") =>
       /\ result.data.sellerName.t = "string" /\ result.data.sellerName.s # <<>>
       /\ result.data.vatNumber.t = "string" /\ result.data.vatNumber.s # <<>>
       /\ result.data.totalAmount # Undefined

\* A payload with a seller name and a numeric total whose VAT number is empty has
\* been rejected by both functions.
C2_Witness ==
  /\ pc = "validated"
  /\ NonEmptyTag(1) /\ NumericTag(4)
  /\ HasTag(ReadableFields, 2) /\ ~NonEmptyTag(2)
  /\ result = Null
  /\ valid = FALSE

\* C3: a payload whose tag 4 is not the text of a number gives null, and false
\* from isValidZATCAQR, also when tags 1 and 2 are present and non-empty.
C3_NonNumericTotalGivesNull ==
  /\ (Returned /\ HasTag(ReadableFields, 4) /\ ~NumericTag(4)) => result = Null
  /\ (Validated /\ HasTag(ReadableFields, 4) /\ ~NumericTag(4)) => valid = FALSE

\* C4: parseZATCAQR is total.  Every iteration of the loop moves the cursor
\* forward by at least the two header bytes and leaves it inside the input, so
\* the loop ends after at most length/2 iterations; and what the call returns is
\* a record or null, whatever the input (base64 or not, cut anywhere).
C4_ParseIsTotal ==
  /\ (pc = "walk" /\ WalkContinues(decodedData, position)) =>
       LET next == Advance(position, CharCodeAt(decodedData, position + 1))
       IN position + 2 <= next /\ next <= Len(decodedData)
  /\ Returned => result.t \in {"null", "object"}

\* A cut payload that atob refuses and the fallback walks has ended in null.
C4_Witness ==
  /\ pc = "returned"
  /\ atob(qrData).threw
  /\ dropped > 0
  /\ position > 0
  /\ result = Null

\* C5: decoding a payload cut inside a field (in its header or in its value)
\* gives exactly what decoding the fields before the cut gives.
C5_TruncationSafe ==
  (pc = "returned" /\ dropped > 0) =>
    result = parseZATCAQR(Scanned(EncodeAll(ReadableFields), enc), now)

\* A payload cut inside the value of its last field, with three or more fields
\* before the cut, has been decoded to a record.
C5_Witness ==
  /\ pc = "returned"
  /\ dropped > 0
  /\ dropped <= Len(fields[Len(fields)].value)
  /\ Len(ReadableFields) >= 3
  /\ result.t = "object"

IsKnownField(f) == f.tag \in 1..5

\* F without its fields of unrecognized tags.
WithoutUnknown(F) == SelectSeq(F, IsKnownField)

\* C6: a complete payload with a field of an unrecognized tag decodes to what the
\* payload without that field decodes to.
C6_UnknownTagIgnored ==
  (pc = "returned" /\ dropped = 0 /\ HasTag(fields, 99)) =>
    result = parseZATCAQR(Scanned(EncodeAll(WithoutUnknown(fields)), enc), now)

\* A record has been decoded from a payload with the unknown field between the
\* seller name and the total.
C6_Witness ==
  /\ pc = "returned"
  /\ dropped = 0
  /\ Len(fields) = 4
  /\ fields[1].tag = 1 /\ fields[2].tag = 99 /\ fields[3].tag = 4 /\ fields[4].tag = 2
  /\ result.t = "object"

\* The fields of a record other than the synthesized invoice number.
ValidatedFields(d) ==
  <<d.sellerName, d.vatNumber, d.invoiceDate, d.totalAmount, d.vatAmount, d.subtotal>>

\* C7: two calls on the same string, at the same or at different clock readings,
\* are both null or both records, and the records agree in every field but the
\* invoice number.
C7_Deterministic ==
  pc = "done" =>
    /\ result.t = second.t
    /\ ValidatedFields(result.data) = ValidatedFields(second.data)

\* Two calls at different clock readings have returned records that differ in the
\* invoice number only.
C7_Witness ==
  /\ pc = "done"
  /\ now > 0
  /\ result.t = "object"
  /\ result.data.invoiceNumber # second.data.invoiceNumber

\* C8: isValidZATCAQR(raw) is true exactly when parseZATCAQR(raw) is not null.
C8_ValidIffRecord == Validated => (valid <=> result # Null)

\* isValidZATCAQR has answered true for a string that parsed to a record.
C8_Witness == pc = "validated" /\ valid /\ result.t = "object"

\* C9: a record whose total and VAT amount are both numbers, zero included, has
\* subtotal = totalAmount - vatAmount.
C9_SubtotalIsDifference ==
  (Returned /\ result.t = "object" /\ NumericTag(4) /\ NumericTag(5)) =>
    result.data.subtotal = Num(AmountOf(4) - AmountOf(5))

\* C10: a record without a numeric VAT amount (tag 5 missing or not a number) has
\* no subtotal.
C10_NoSubtotalWithoutVat ==
  (Returned /\ result.t = "object" /\ ~NumericTag(5)) =>
    result.data.subtotal = Undefined

\* A record has been returned for a payload whose tag 5 is not a number.
C10_Witness ==
  /\ pc = "returned"
  /\ result.t = "object"
  /\ HasTag(ReadableFields, 5) /\ ~NumericTag(5)
  /\ result.data.vatAmount = NaN

\* ------------------------------------------- payloads with more kinds of field

\* The most bytes cut off the end of a payload of the extended family.
MaxDrop == 2

\* Fields with an invoice date (tag 3), with the invoice number the README lists
\* as tag 8, and with a code unit that does not fit in a byte: a tag of 256.
ExtendedOptions ==
  { Field(1, <<65>>, FALSE, 0),                   \* seller name "A"
    Field(2, <<66>>, FALSE, 0),                   \* VAT number "B"
    Field(3, <<49, 50>>, FALSE, 0),               \* date "12"
    Field(3, <<84, 49>>, FALSE, 0),               \* date "T1"
    Field(3, <<49, 84, 84, 50>>, FALSE, 0),       \* date "1TT2"
    Field(4, <<55, 46, 53>>, TRUE, 750),          \* total "7.5"
    Field(8, <<78>>, FALSE, 0),                   \* invoice number "N"
    Field(256, <<>>, FALSE, 0) }                  \* tag 256, no value

\* The payloads of the extended family: up to MaxFields fields of different tags,
\* in any order.
ExtendedFieldSeqs ==
  UNION { {F \in [1..k -> ExtendedOptions] :
             \A i, j \in 1..k : i < j => F[i].tag # F[j].tag}
          : k \in 0..MaxFields }

\* btoa accepts code units up to 255 only: a string with a larger one cannot
\* have been base64-encoded.
Encodings(bytes) ==
  IF \A i \in 1..Len(bytes) : bytes[i] <= 255 THEN {"base64", "raw"} ELSE {"raw"}

InitExtended ==
  /\ fields \in ExtendedFieldSeqs
  /\ dropped \in {d \in Drops(fields) : d <= MaxDrop}
  /\ enc \in Encodings(Payload(fields, dropped))
  /\ qrData = Scanned(Payload(fields, dropped), enc)
  /\ now = 0
  /\ pc = "entry"
  /\ decodedData = <<>>
  /\ position = 0
  /\ data = EmptyData
  /\ result = Pending
  /\ valid = FALSE
  /\ second = Pending
  /\ concurrent = Call(<<>>)
  /\ Mounted

SpecExtended == InitExtended /\ [][Next]_vars

\* The part of a date before its first "T": the whole of it when it has none.
DatePart(value) ==
  IF \E i \in 1..Len(value) : value[i] = 84
  THEN SubSeq(value, 1,
              (CHOOSE i \in 1..Len(value) :
                 value[i] = 84 /\ \A j \in 1..(i - 1) : value[j] # 84) - 1)
  ELSE value

\* C11: the invoiceDate of a record is the part of the tag 3 value before its
\* first "T" (all of it without a "T"); without a tag 3 the invoiceDate is unset,
\* and the record is returned all the same when tags 1, 2 and 4 are valid.
C11_DateTruncation ==
  /\ (Returned /\ result.t = "object" /\ HasTag(ReadableFields, 3)) =>
       result.data.invoiceDate = Str(DatePart(LastOf(ReadableFields, 3).value))
  /\ (Returned /\ ~HasTag(ReadableFields, 3) /\ NonEmptyTag(1) /\ NonEmptyTag(2)
        /\ NumericTag(4)) =>
       result.t = "object" /\ result.data.invoiceDate = Undefined

\* A record has been returned whose date "1TT2" was cut at the first "T".
C11_Witness ==
  /\ pc = "returned"
  /\ result.t = "object"
  /\ HasTag(ReadableFields, 3)
  /\ LastOf(ReadableFields, 3).value = <<49, 84, 84, 50>>
  /\ result.data.invoiceDate = Str(<<49>>)

\* C12: when atob refuses the scanned string the walk runs on the string itself
\* and the call still returns a record or null; a raw TLV string with valid tags
\* 1, 2 and 4 is such a string, and it decodes to the record that the walk of
\* its units gives.
C12_Base64Fallback ==
  /\ (pc # "entry" /\ atob(qrData).threw) => decodedData = qrData
  /\ (Returned /\ atob(qrData).threw) => result.t \in {"null", "object"}
  /\ (pc = "returned" /\ atob(qrData).threw) =>
       result = Finalize(Walk(qrData, 0, EmptyData), now)
  /\ (Returned /\ enc = "raw" /\ NonEmptyTag(1) /\ NonEmptyTag(2) /\ NumericTag(4)) =>
       /\ atob(qrData).threw
       /\ result.t = "object"
       /\ result.data.sellerName = Str(LastOf(ReadableFields, 1).value)
       /\ result.data.vatNumber = Str(LastOf(ReadableFields, 2).value)
       /\ result.data.totalAmount = Num(AmountOf(4))

\* A raw TLV string of four complete fields, VAT amount included, has been
\* decoded to a record through the fallback.
C12_Witness ==
  /\ pc = "returned"
  /\ enc = "raw"
  /\ dropped = 0
  /\ Len(fields) = 4
  /\ atob(qrData).threw
  /\ decodedData = qrData
  /\ result.t = "object"
  /\ result.data.vatAmount = Num(200)

\* The walk is about to read a tag and a length: the loop condition holds and
\* the first break is not taken.
ReadsHeader ==
  /\ pc = "walk"
  /\ position < Len(decodedData)
  /\ ~HeaderTruncated(decodedData, position)

\* C13: every tag and every length the walk reads is a byte, 0..255, after atob
\* and on the raw string alike, and no text extracted into the record is longer
\* than 255 units.
C13_TagAndLengthAreBytes ==
  /\ ReadsHeader =>
       /\ CharCodeAt(decodedData, position) \in 0..255
       /\ CharCodeAt(decodedData, position + 1) \in 0..255
  /\ Len(data.sellerName.s) <= 255
  /\ Len(data.vatNumber.s) <= 255
  /\ Len(data.invoiceDate.s) <= 255

\* C14: the walk never reads past the end of its input.  The cursor stays within
\* 0 .. length; where a tag and a length are read, the two units are there; and
\* where a value is extracted, all of position + 2 .. position + 2 + length is.
C14_NoReadPastEnd ==
  /\ 0 <= position /\ position <= Len(decodedData)
  /\ ReadsHeader => position + 2 <= Len(decodedData)
  /\ (pc = "walk" /\ WalkContinues(decodedData, position)) =>
       /\ position + 2 <= Len(decodedData)
       /\ position + 2 + CharCodeAt(decodedData, position + 1) <= Len(decodedData)

\* The walk of a base64 payload has read some fields and stopped at a field that
\* is cut, with the cursor before the end.
C14_Witness ==
  /\ pc = "post"
  /\ enc = "base64"
  /\ dropped > 0
  /\ 0 < position /\ position < Len(decodedData)

\* C15: two decode calls that return records return different invoice numbers,
\* however close in time the calls are.
C15_InvoiceNumberUnique ==
  (pc = "done" /\ result.t = "object" /\ second.t = "object") =>
    result.data.invoiceNumber # second.data.invoiceNumber

\* C16: the invoiceNumber of a record is the value of tag 8 when the payload
\* carries one, and a synthesized number only when it carries none.
C16_InvoiceNumberFromTag8 ==
  (pc = "returned" /\ result.t = "object") =>
    result.data.invoiceNumber =
      IF HasTag(ReadableFields, 8)
      THEN Str(LastOf(ReadableFields, 8).value)
      ELSE Str(<<73, 78, 86, 45>> \o DecimalDigits(now))

\* ------------------------------------------------ the scanner component

\* The most POST requests of one session.
MaxPosts == 2

\* The QR codes shown to the scanner: a ZATCA payload (seller "A", VAT number
\* "B", total "7.5", VAT "2", base64) and the text "x".
ScannedPayloads ==
  { btoa(EncodeAll(<<Field(1, <<65>>, FALSE, 0), Field(2, <<66>>, FALSE, 0),
                     Field(4, <<55, 46, 53>>, TRUE, 750),
                     Field(5, <<50>>, TRUE, 200)>>)),
    <<120>> }

NullValue == [t |-> "null", s |-> <<>>, n |-> 0]

\* Number.prototype.toString of a number counted in hundredths, or of NaN.
NumberToString(v) ==
  IF v.t # "number" THEN <<78, 97, 78>>
  ELSE LET k == IF v.n < 0 THEN 0 - v.n ELSE v.n
           sign == IF v.n < 0 THEN <<45>> ELSE <<>>
           whole == DecimalDigits(k \div 100)
           cents == k % 100
       IN IF cents = 0 THEN sign \o whole
          ELSE IF cents % 10 = 0 THEN sign \o whole \o <<46, 48 + (cents \div 10)>>
          ELSE sign \o whole \o <<46, 48 + (cents \div 10), 48 + (cents % 10)>>

\* x || null
OrNull(v) == IF Truthy(v) THEN v ELSE NullValue

\* x?.toString() || null
ToStringOrNull(v) ==
  IF v = Undefined THEN NullValue ELSE OrNull(Str(NumberToString(v)))

\* status: 'valid' whatever the decoder returned
QrRecord_alwaysValid(raw, parsedData) ==
  [rawData |-> raw,
   status |-> "valid",
   sellerName |-> OrNull(parsedData.data.sellerName),
   vatNumber |-> OrNull(parsedData.data.vatNumber),
   invoiceNumber |-> OrNull(parsedData.data.invoiceNumber),
   invoiceDate |-> OrNull(parsedData.data.invoiceDate),
   subtotal |-> ToStringOrNull(parsedData.data.subtotal),
   vatAmount |-> ToStringOrNull(parsedData.data.vatAmount),
   totalAmount |-> ToStringOrNull(parsedData.data.totalAmount)]

\* const qrRecord = { ... }: parsedData?.x of null is undefined, as the fields
\* of Null's data are.
QrRecord(raw, parsedData) ==
  [rawData |-> raw,
   status |-> IF parsedData.t = "object" THEN "valid" ELSE "invalid",
   sellerName |-> OrNull(parsedData.data.sellerName),
   vatNumber |-> OrNull(parsedData.data.vatNumber),
   invoiceNumber |-> OrNull(parsedData.data.invoiceNumber),
   invoiceDate |-> OrNull(parsedData.data.invoiceDate),
   subtotal |-> ToStringOrNull(parsedData.data.subtotal),
   vatAmount |-> ToStringOrNull(parsedData.data.vatAmount),
   totalAmount |-> ToStringOrNull(parsedData.data.totalAmount)]

\* The state as the render that is on screen has it in scope.
CurrentRender ==
  Render(scanMode, isProcessing, scanCooldown, lastScannedData, scannedDataHistory)

cooldownVars == <<scanCooldown, cooldownTimer, cooldownInterval, orphanIntervals>>

processVars == <<isProcessing, lastScannedData, scannedDataHistory, posts, saving>>

\* startCooldown(): the interval that cooldownInterval.current referred to is not
\* cleared, and runs on unreferenced.
StartCooldown ==
  /\ scanCooldown' = TRUE
  /\ cooldownTimer' = 3
  /\ cooldownInterval' = TRUE
  /\ orphanIntervals' = (orphanIntervals \/ cooldownInterval)

\* processQRCode(raw) of render r, up to its await: the guard reads the
\* isProcessing of r, the setters write the state.
ProcessQRCode(r, raw) ==
  IF r.isProcessing THEN UNCHANGED processVars
  ELSE /\ Len(posts) < MaxPosts
       /\ isProcessing' = TRUE
       /\ lastScannedData' = raw
       /\ scannedDataHistory' = scannedDataHistory \cup {raw}
       /\ posts' = Append(posts, QrRecord(raw, parseZATCAQR(raw, now)))
       /\ saving' = saving \cup {Len(posts) + 1}

\* handleQRDetection(raw) of render r: every test reads the state r has in scope.
HandleQRDetection(r, raw) ==
  IF r.scanCooldown \/ r.isProcessing
    THEN UNCHANGED <<cooldownVars, processVars, debounceTimeout>>
  ELSE IF raw \in r.scannedDataHistory
    THEN StartCooldown /\ UNCHANGED <<processVars, debounceTimeout>>
  ELSE IF raw = r.lastScannedData
    THEN UNCHANGED <<cooldownVars, processVars, debounceTimeout>>
  ELSE IF r.scanMode = "upload"
    THEN /\ debounceTimeout' = NoTimer
         /\ ProcessQRCode(r, raw)
         /\ UNCHANGED cooldownVars
  ELSE /\ debounceTimeout' = [pending |-> TRUE, qrData |-> raw, render |-> r]
       /\ UNCHANGED <<cooldownVars, processVars>>

\* No decode call of its own runs beside the component.
InitScanner ==
  /\ fields = <<>>
  /\ dropped = 0
  /\ enc = "raw"
  /\ qrData = <<>>
  /\ now = 0
  /\ pc = "entry"
  /\ decodedData = <<>>
  /\ position = 0
  /\ data = EmptyData
  /\ result = Pending
  /\ valid = FALSE
  /\ second = Pending
  /\ concurrent = Call(<<>>)
  /\ Mounted

\* The camera scanner decodes a QR code and calls its callback, which calls the
\* handleQRDetection of the render that created the scanner.
CameraDetects ==
  /\ scanner.live
  /\ \E raw \in ScannedPayloads : HandleQRDetection(scanner.render, raw)
  /\ UNCHANGED <<scanMode, scanner, uploading, saved>>
  /\ UNCHANGED <<parserVars, concurrent>>

\* The debounce timer fires: its callback was made by the handleQRDetection of
\* a render, and tests and calls what that render has in scope.
DebounceFires ==
  /\ debounceTimeout.pending
  /\ debounceTimeout' = NoTimer
  /\ LET r == debounceTimeout.render
         raw == debounceTimeout.qrData
     IN IF ~r.scanCooldown /\ ~r.isProcessing /\ raw \notin r.scannedDataHistory
        THEN ProcessQRCode(r, raw)
        ELSE UNCHANGED processVars
  /\ UNCHANGED <<scanMode, scanner, uploading, saved, cooldownVars>>
  /\ UNCHANGED <<parserVars, concurrent>>

\* handleFileUpload of the render on screen, up to await QrScanner.scanImage.
\* The input exists in upload mode only; during a cooldown the handler returns.
HandleFileUpload ==
  /\ scanMode = "upload"
  /\ ~scanCooldown
  /\ ~uploading.pending
  /\ \E raw \in ScannedPayloads :
       uploading' = [pending |-> TRUE, qrData |-> raw, render |-> CurrentRender]
  /\ UNCHANGED <<scanMode, scanner, saved, cooldownVars, processVars, debounceTimeout>>
  /\ UNCHANGED <<parserVars, concurrent>>

\* scanImage resolves: handleFileUpload goes on to call its handleQRDetection.
UploadDetects ==
  /\ uploading.pending
  /\ HandleQRDetection(uploading.render, uploading.qrData)
  /\ uploading' = NoTimer
  /\ UNCHANGED <<scanMode, scanner, saved>>
  /\ UNCHANGED <<parserVars, concurrent>>

\* A request succeeds: processQRCode goes on after its await, to the end of its
\* try and its finally.
SaveSucceeds ==
  /\ \E i \in saving :
       /\ saving' = saving \ {i}
       /\ saved' = saved \cup {posts[i].rawData}
  /\ StartCooldown
  /\ isProcessing' = FALSE
  /\ UNCHANGED <<scanMode, scanner, uploading, debounceTimeout, lastScannedData,
                 scannedDataHistory, posts>>
  /\ UNCHANGED <<parserVars, concurrent>>

\* A request fails: the catch takes the payload out of the history.
SaveFails ==
  /\ \E i \in saving :
       /\ saving' = saving \ {i}
       /\ scannedDataHistory' = scannedDataHistory \ {posts[i].rawData}
  /\ StartCooldown
  /\ isProcessing' = FALSE
  /\ UNCHANGED <<scanMode, scanner, uploading, debounceTimeout, lastScannedData,
                 posts, saved>>
  /\ UNCHANGED <<parserVars, concurrent>>

\* An interval started by startCooldown ticks: the one cooldownInterval.current
\* refers to, or one left running.  At 1 or below the cooldown ends and
\* clearInterval(cooldownInterval.current) is called.
CooldownTick ==
  /\ cooldownInterval \/ orphanIntervals
  /\ IF cooldownTimer <= 1
     THEN /\ scanCooldown' = FALSE
          /\ cooldownInterval' = FALSE
          /\ cooldownTimer' = 0
     ELSE /\ cooldownTimer' = cooldownTimer - 1
          /\ UNCHANGED <<scanCooldown, cooldownInterval>>
  /\ UNCHANGED <<scanMode, scanner, uploading, saved, orphanIntervals, processVars,
                 debounceTimeout>>
  /\ UNCHANGED <<parserVars, concurrent>>

\* A click on the mode toggle, and the effect on [scanMode] of the new render:
\* in camera mode startCamera makes a scanner whose callback is from that
\* render, in upload mode stopCamera destroys the scanner.
SetScanMode ==
  /\ \E mode \in {"camera", "upload"} :
       /\ mode # scanMode
       /\ scanMode' = mode
       /\ scanner' =
            IF mode = "camera"
            THEN [live |-> TRUE,
                  render |-> Render("camera", isProcessing, scanCooldown,
                                    lastScannedData, scannedDataHistory)]
            ELSE NoScanner
  /\ UNCHANGED <<uploading, saved, cooldownVars, processVars, debounceTimeout>>
  /\ UNCHANGED <<parserVars, concurrent>>

NextScanner ==
  \/ CameraDetects
  \/ DebounceFires
  \/ HandleFileUpload
  \/ UploadDetects
  \/ SaveSucceeds
  \/ SaveFails
  \/ CooldownTick
  \/ SetScanMode

SpecScanner == InitScanner /\ [][NextScanner]_vars

\* C17: once a raw payload has been saved, no step sends another POST request
\* for that payload.
C17_NoSecondSave ==
  [][\A i \in 1..Len(posts') : i > Len(posts) => posts'[i].rawData \notin saved]_vars

\* C18: every record that processQRCode submits has status 'valid' exactly when
\* parseZATCAQR returns a record for its rawData, and 'invalid' otherwise, and
\* then its seven decoded fields are null.
C18_StatusAgreesWithDecoder ==
  \A i \in 1..Len(posts) :
    LET r == posts[i]
    IN /\ r.status \in {"valid", "invalid"}
       /\ r.status = "valid" <=> parseZATCAQR(r.rawData, now) # Null
       /\ r.status = "invalid" =>
            /\ r.sellerName = NullValue
            /\ r.vatNumber = NullValue
            /\ r.invoiceNumber = NullValue
            /\ r.invoiceDate = NullValue
            /\ r.subtotal = NullValue
            /\ r.vatAmount = NullValue
            /\ r.totalAmount = NullValue

\* An invalid record and then a valid one, with its amounts as text, have been
\* submitted.
C18_Witness ==
  /\ Len(posts) = 2
  /\ posts[1].status = "invalid"
  /\ posts[1].rawData = <<120>>
  /\ posts[2].status = "valid"
  /\ posts[2].totalAmount = Str(<<55, 46, 53>>)
  /\ posts[2].subtotal = Str(<<53, 46, 53>>)
  /\ posts[2].invoiceDate = NullValue

\* ------------------------------------------------ two calls at the same time

\* The fields of the payloads that two calls decode side by side.
ConcurrentOptions ==
  { Field(1, <<65>>, FALSE, 0),            \* seller name "A"
    Field(2, <<66>>, FALSE, 0),            \* VAT number "B"
    Field(4, <<55, 46, 53>>, TRUE, 750),   \* total "7.5"
    Field(5, <<50>>, TRUE, 200) }          \* VAT "2"

\* Up to MaxFields of them, of different tags, in any order.
ConcurrentFieldSeqs ==
  UNION { {F \in [1..k -> ConcurrentOptions] :
             \A i, j \in 1..k : i < j => F[i].tag # F[j].tag}
          : k \in 0..MaxFields }

\* The strings the second call is given: three fields in the order of their
\* tags, base64 or raw.
ConcurrentInputs ==
  { Scanned(EncodeAll(F), e) :
      F \in {G \in ConcurrentFieldSeqs :
               Len(G) = 3 /\ G[1].tag < G[2].tag /\ G[2].tag < G[3].tag},
      e \in {"base64", "raw"} }

\* One step of a call with locals c, as if position were one variable shared by
\* all calls: the step reads and moves the cursor of the first call.
CallStep_sharedPosition(c) ==
  CASE c.pc = "entry" ->
         [c EXCEPT !.decodedData = DecodedData(c.qrData), !.position = 0,
                   !.data = EmptyData, !.pc = "walk"]
    [] c.pc = "walk" /\ WalkContinues(c.decodedData, position) ->
         [c EXCEPT !.data = IterationData(c.decodedData, position, c.data),
                   !.position =
                      Advance(position, CharCodeAt(c.decodedData, position + 1))]
    [] c.pc = "walk" /\ ~WalkContinues(c.decodedData, position) ->
         [c EXCEPT !.pc = "post"]
    [] c.pc = "post" ->
         [c EXCEPT !.result = Finalize(c.data, now), !.pc = "returned"]
    [] OTHER -> c

\* One step of a call with locals c: the decode, an iteration of the loop, the
\* end of the loop (its condition or a break), or the post-processing and return.
CallStep(c) ==
  CASE c.pc = "entry" ->
         [c EXCEPT !.decodedData = DecodedData(c.qrData), !.position = 0,
                   !.data = EmptyData, !.pc = "walk"]
    [] c.pc = "walk" /\ WalkContinues(c.decodedData, c.position) ->
         [c EXCEPT !.data = IterationData(c.decodedData, c.position, c.data),
                   !.position =
                      Advance(c.position, CharCodeAt(c.decodedData, c.position + 1))]
    [] c.pc = "walk" /\ ~WalkContinues(c.decodedData, c.position) ->
         [c EXCEPT !.pc = "post"]
    [] c.pc = "post" ->
         [c EXCEPT !.result = Finalize(c.data, now), !.pc = "returned"]
    [] OTHER -> c

InitConcurrent ==
  /\ fields \in ConcurrentFieldSeqs
  /\ dropped \in Drops(fields)
  /\ enc \in {"base64", "raw"}
  /\ qrData = Scanned(Payload(fields, dropped), enc)
  /\ now = 0
  /\ pc = "entry"
  /\ decodedData = <<>>
  /\ position = 0
  /\ data = EmptyData
  /\ result = Pending
  /\ valid = FALSE
  /\ second = Pending
  /\ concurrent \in {Call(raw) : raw \in ConcurrentInputs}
  /\ Mounted

\* The other call takes a step.
ConcurrentStep ==
  /\ concurrent.pc # "returned"
  /\ concurrent' = CallStep(concurrent)
  /\ UNCHANGED <<parserVars, scannerVars>>

\* The clock that both calls read moves on.
ClockAdvances ==
  /\ now < MaxNow
  /\ now' = now + 1
  /\ UNCHANGED <<fields, dropped, enc, qrData, pc, decodedData, position, data,
                 result, valid, second>>
  /\ UNCHANGED <<concurrent, scannerVars>>

NextConcurrent ==
  \/ Decode
  \/ Iterate
  \/ LoopEnd
  \/ BreakHeader
  \/ BreakValue
  \/ Return
  \/ ConcurrentStep
  \/ ClockAdvances

SpecConcurrent == InitConcurrent /\ [][NextConcurrent]_vars

\* C19: with two calls interleaved step by step in any order, each call ends
\* null or not, and with the validated fields, as a call on its string alone does.
C19_CallsIndependent ==
  /\ pc = "returned" =>
       /\ result.t = parseZATCAQR(qrData, now).t
       /\ ValidatedFields(result.data) = ValidatedFields(parseZATCAQR(qrData, now).data)
  /\ concurrent.pc = "returned" =>
       /\ concurrent.result.t = parseZATCAQR(concurrent.qrData, now).t
       /\ ValidatedFields(concurrent.result.data) =
            ValidatedFields(parseZATCAQR(concurrent.qrData, now).data)

\* The first call has returned null for a cut payload while the other call, on
\* a string that decodes to a record, is in the middle of its walk.
C19_Witness ==
  /\ pc = "returned" /\ result = Null /\ dropped > 0
  /\ concurrent.pc = "walk"
  /\ 0 < concurrent.position /\ concurrent.position < Len(concurrent.decodedData)
  /\ concurrent.qrData # qrData
  /\ parseZATCAQR(concurrent.qrData, now).t = "object"

\* ------------------------------------------------------------ termination

\* The steps of the loop: an iteration, the end of the loop, the two breaks.
WalkSteps == Iterate \/ LoopEnd \/ BreakHeader \/ BreakValue

\* A loop that has begun is run on: JavaScript does not suspend a synchronous
\* function.
FairSpecExtended == SpecExtended /\ WF_vars(WalkSteps)

\* C20: an iteration that does not stop extracts exactly `length` units and
\* moves the cursor by exactly 2 + length, which is 2 at least; the walk ends
\* only with the cursor at the end or at one of the two breaks; and it does end.
C20_WalkTerminates ==
  /\ [][(pc = "walk" /\ pc' = "walk") =>
          LET length == CharCodeAt(decodedData, position + 1)
              value == Substring(decodedData, position + 2, position + 2 + length)
          IN /\ Len(value) = length
             /\ position' = position + 2 + length
             /\ position' >= position + 2
             /\ data' = ApplyTag(data, CharCodeAt(decodedData, position), value)]_vars
  /\ [][(pc = "walk" /\ pc' = "post") =>
          \/ position = Len(decodedData)
          \/ HeaderTruncated(decodedData, position)
          \/ ValueTruncated(decodedData, position,
                            CharCodeAt(decodedData, position + 1))]_vars
  /\ (pc = "walk") ~> (pc = "post")

\* The walk of a complete payload of three or more fields has ended with the
\* cursor at the end of the input.
C20_Witness ==
  /\ pc = "post"
  /\ dropped = 0
  /\ Len(fields) >= 3
  /\ position = Len(decodedData)
  /\ position >= 6

\* ------------------------------------------------ more claims about the decoder

\* C21: a tag 5 that parseFloat cannot read does not reject the payload.  With a
\* non-empty tag 1, a non-empty tag 2 and a numeric tag 4, the call returns a
\* record whose vatAmount is not-a-number (the absent amount), whose subtotal is
\* unset, and whose sellerName, vatNumber and totalAmount are the decoded values;
\* isValidZATCAQR answers true.
C21_NonNumericVatKept ==
  /\ (Returned /\ NonEmptyTag(1) /\ NonEmptyTag(2) /\ NumericTag(4)
        /\ HasTag(ReadableFields, 5) /\ ~NumericTag(5)) =>
       /\ result.t = "object"
       /\ result.data.vatAmount = NaN
       /\ ~Truthy(result.data.vatAmount)
       /\ result.data.subtotal = Undefined
       /\ result.data.sellerName = Str(LastOf(ReadableFields, 1).value)
       /\ result.data.vatNumber = Str(LastOf(ReadableFields, 2).value)
       /\ result.data.totalAmount = Num(AmountOf(4))
  /\ (Validated /\ NonEmptyTag(1) /\ NonEmptyTag(2) /\ NumericTag(4)
        /\ HasTag(ReadableFields, 5) /\ ~NumericTag(5)) => valid

\* A complete payload with the VAT amount "x" between valid tags 1, 2 and 4 has
\* been decoded to a record and found valid.
C21_Witness ==
  /\ pc = "validated"
  /\ dropped = 0
  /\ NonEmptyTag(1) /\ NonEmptyTag(2) /\ NumericTag(4)
  /\ HasTag(fields, 5) /\ LastOf(fields, 5).value = <<120>>
  /\ fields[1].tag = 5
  /\ result.t = "object"
  /\ result.data.totalAmount = Num(750)
  /\ valid

\* ------------------------------------- payloads with repeated and reordered fields

\* The most fields in a payload of this family.
MaxRepeated == 5

\* Two values for each of the tags the switch knows.
RepeatedOptions ==
  { Field(1, <<65>>, FALSE, 0),            \* seller name "A"
    Field(1, <<>>, FALSE, 0),              \* seller name ""
    Field(2, <<66>>, FALSE, 0),            \* VAT number "B"
    Field(2, <<>>, FALSE, 0),              \* VAT number ""
    Field(3, <<49, 50>>, FALSE, 0),        \* date "12"
    Field(3, <<84, 49>>, FALSE, 0),        \* date "T1"
    Field(4, <<55, 46, 53>>, TRUE, 750),   \* total "7.5"
    Field(4, <<57>>, TRUE, 900),           \* total "9"
    Field(5, <<50>>, TRUE, 200),           \* VAT "2"
    Field(5, <<120>>, FALSE, 0) }          \* VAT "x"

\* Up to MaxRepeated pairwise different fields in any order: a tag occurs once,
\* twice (with its two values, in either order) or not at all.
RepeatedFieldSeqs ==
  UNION { {F \in [1..k -> RepeatedOptions] :
             \A i, j \in 1..k : i < j => F[i] # F[j]}
          : k \in 0..MaxRepeated }

InitRepeated ==
  /\ fields \in RepeatedFieldSeqs
  /\ dropped = 0
  /\ enc = "base64"
  /\ qrData = Scanned(Payload(fields, dropped), enc)
  /\ now = 0
  /\ pc = "entry"
  /\ decodedData = <<>>
  /\ position = 0
  /\ data = EmptyData
  /\ result = Pending
  /\ valid = FALSE
  /\ second = Pending
  /\ concurrent = Call(<<>>)
  /\ Mounted

\* parseZATCAQR(qrData) from its call to its return, the loop run to its end.  Of
\* the locals the decoded string and the record are kept for inspection.
ParseCall ==
  /\ pc = "entry"
  /\ decodedData' = DecodedData(qrData)
  /\ data' = Walk(decodedData', 0, EmptyData)
  /\ result' = Finalize(data', now)
  /\ pc' = "returned"
  /\ UNCHANGED <<fields, dropped, enc, qrData, now, position, valid, second>>
  /\ UNCHANGED <<concurrent, scannerVars>>

NextRepeated == ParseCall

SpecRepeated == InitRepeated /\ [][NextRepeated]_vars

\* What the last occurrence of tag k among the readable fields holds.
LastValue(k) == LastOf(ReadableFields, k).value

\* The amount the last occurrence of tag k stands for.
LastAmount(k) == IF NumericTag(k) THEN Num(AmountOf(k)) ELSE NaN

\* The record built from the last occurrence of every tag, before post-processing.
LastOccurrences ==
  [sellerName |-> IF HasTag(ReadableFields, 1) THEN Str(LastValue(1)) ELSE Undefined,
   vatNumber |-> IF HasTag(ReadableFields, 2) THEN Str(LastValue(2)) ELSE Undefined,
   invoiceNumber |-> Undefined,
   invoiceDate |-> IF HasTag(ReadableFields, 3) THEN Str(DatePart(LastValue(3)))
                   ELSE Undefined,
   subtotal |-> Undefined,
   vatAmount |-> IF HasTag(ReadableFields, 5) THEN LastAmount(5) ELSE Undefined,
   totalAmount |-> IF HasTag(ReadableFields, 4) THEN LastAmount(4) ELSE Undefined]

\* C22: when a tag from 1 to 5 occurs more than once, its last occurrence is the
\* one that counts.  The record the loop has built holds, for every tag, the value
\* of the last occurrence; what is returned is what post-processing makes of that
\* record; and it is a record exactly when the last tag 1 and the last tag 2 are
\* non-empty and a tag 4 is there.
C22_LastOccurrenceWins ==
  Returned =>
    /\ data = LastOccurrences
    /\ result.t = "object" <=>
         (NonEmptyTag(1) /\ NonEmptyTag(2) /\ HasTag(ReadableFields, 4))
    /\ result = Finalize(LastOccurrences, now)

\* A payload with the seller name "A", valid tags 2 and 4 and then the seller name
\* "" has been rejected.
C22_Witness ==
  /\ pc = "returned"
  /\ Len(fields) = 4
  /\ fields[1] = Field(1, <<65>>, FALSE, 0)
  /\ fields[4] = Field(1, <<>>, FALSE, 0)
  /\ NonEmptyTag(2) /\ NumericTag(4)
  /\ data.sellerName = Str(<<>>)
  /\ result = Null

\* No tag occurs twice in F.
DistinctTags(F) == \A i, j \in 1..Len(F) : i < j => F[i].tag # F[j].tag

\* The fields of the set S in the order of their tags.
RECURSIVE InTagOrder(_)
InTagOrder(S) ==
  IF S = {} THEN <<>>
  ELSE LET first == CHOOSE f \in S : \A g \in S : f.tag <= g.tag
       IN <<first>> \o InTagOrder(S \ {first})

\* C23: the order of the fields does not matter.  A complete payload of fields
\* with pairwise different tags decodes to what the same fields in the order of
\* their tags decode to: both null or both records, equal in sellerName,
\* vatNumber, invoiceDate, totalAmount, vatAmount and subtotal.
C23_OrderIndependent ==
  (Returned /\ dropped = 0 /\ DistinctTags(fields)) =>
    LET ordered == InTagOrder({fields[i] : i \in 1..Len(fields)})
        other == parseZATCAQR(Scanned(EncodeAll(ordered), enc), now)
    IN /\ result.t = other.t
       /\ ValidatedFields(result.data) = ValidatedFields(other.data)

\* A record with a date and a subtotal has been decoded from the five tags in the
\* order 5, 4, 3, 2, 1.
C23_Witness ==
  /\ pc = "returned"
  /\ dropped = 0
  /\ Len(fields) = 5
  /\ \A i \in 1..5 : fields[i].tag = 6 - i
  /\ result.t = "object"
  /\ result.data.invoiceDate = Str(<<49, 50>>)
  /\ result.data.subtotal = Num(550)

\* ------------------------------------------- more claims about the scanner

\* A step in which a detected payload reaches handleQRDetection, from the camera
\* or from an upload.
Detection == CameraDetects \/ UploadDetects

\* C24: a payload detected while scanCooldown or isProcessing is true is dropped:
\* the detection, from the camera or from an upload and whichever render its
\* callback is from, sends no save request and schedules no debounce timer.
C24_DetectionsDropped ==
  [][(Detection /\ (scanCooldown \/ isProcessing)) =>
       /\ posts' = posts
       /\ debounceTimeout'.pending => debounceTimeout' = debounceTimeout]_vars

\* The payload raw was submitted, no request for it is in flight, and none of its
\* requests succeeded: its save failed.
SaveFailed(raw) ==
  /\ \E i \in 1..Len(posts) : posts[i].rawData = raw
  /\ \A i \in saving : posts[i].rawData # raw
  /\ raw \notin saved

\* The scan of an uploaded image resolves and its payload reaches handleQRDetection.
UploadResolves == uploading.pending /\ ~uploading'.pending

\* C25: a failed save can be retried.  A payload whose save failed is no longer
\* in the scanned history, and when it is detected again after the cooldown has
\* ended (and with no save in progress) it is processed: a request for it is sent.
C25_FailedSaveRetried ==
  /\ [][\A i \in saving :
          (i \notin saving' /\ posts[i].rawData \notin saved') =>
            posts[i].rawData \notin scannedDataHistory']_vars
  /\ [][(UploadResolves /\ SaveFailed(uploading.qrData)
           /\ ~scanCooldown /\ ~isProcessing) =>
          /\ Len(posts') = Len(posts) + 1
          /\ posts'[Len(posts')].rawData = uploading.qrData]_vars

\* C26: every cooldown lasts three one-second ticks and then ends.  The cooldown
\* is on exactly while cooldownTimer is 3, 2 or 1, a tick takes the timer down by
\* one and ends the cooldown when it reaches 0, and while the cooldown is on its
\* ticks come from one interval only, the one startCooldown has just started,
\* so that they are a second apart.
C26_CooldownThreeTicks ==
  /\ cooldownTimer \in 0..3
  /\ scanCooldown <=> cooldownTimer > 0
  /\ scanCooldown => (cooldownInterval /\ ~orphanIntervals)

\* C27: at most one save request is in flight at any time.
C27_OneSaveInFlight == Cardinality(saving) <= 1

====
